---- MODULE Spec2Model ----
(***************************************************************************)
(* State-machine model of the VDAWS detection pipeline:                    *)
(*   - VoxelTracer's accumulator grid   (src/src/detector/voxel_tracer.py) *)
(*   - ClusterTracker                   (src/src/detect/cluster_tracker.py)*)
(*   - DataPipeline.run / run_continously (src/src/detector/pipeline.py)   *)
(*                                                                         *)
(* Three specifications share the variables:                               *)
(*   Spec         the continuous pipeline (consumer thread + stream client)*)
(*   TrackerSpec  a ClusterTracker driven through its public methods       *)
(*   GridSpec     a VoxelTracer grid driven through add/clear              *)
(*                                                                         *)
(* Numbers.  Positions are integer 3-vectors in units of 1/PosScale voxel  *)
(* so that the mean of up to NumCells integer voxel indices is exact.      *)
(* Timestamps are integers in units of 1/TsScale so that the mean of a     *)
(* batch is exact.  Euclidean distances are compared through their squares *)
(* (the square root is monotone on non-negative numbers).                  *)
(***************************************************************************)
EXTENDS Integers, Sequences, FiniteSets, TLC

VARIABLES
    voxel_grid,        \* VoxelTracer.voxel_grid: cell index -> count
    grid_size,         \* VoxelTracer.grid_size: cells per axis
    grid_min,          \* VoxelTracer.grid_min
    grid_max,          \* VoxelTracer.grid_max
    voxel_sizes,       \* VoxelTracer.voxel_sizes: per axis the quotient
                       \* num / den it was computed as
    cluster_history,   \* ClusterTracker.cluster_history: a dict, kept as the
                       \* sequence of its entries in insertion order
    next_object_id,    \* ClusterTracker.next_object_id
    frame_count,       \* ClusterTracker.frame_count
    max_distance,      \* ClusterTracker.max_distance (constructor argument)
    max_age,           \* ClusterTracker.max_age (constructor argument)
    is_running,        \* DataPipeline.is_running
    thread,            \* position of the consumer thread of run_continously
    data_queue,        \* module-level data_queue of object lists
    sensor_data,       \* the rows of table SensorData read by SQLiteBatcher
    batcher,           \* SQLiteBatcher's threshold and soft_delete
    last                \* what the most recent call did (inputs, result)

tracerVars  == <<voxel_grid, grid_size>>
trackerVars == <<cluster_history, next_object_id, frame_count>>
paramVars   == <<max_distance, max_age>>
loopVars    == <<is_running, thread, data_queue>>
batcherVars == <<sensor_data, batcher>>
boxVars     == <<grid_min, grid_max, voxel_sizes>>
vars == <<voxel_grid, grid_size, grid_min, grid_max, voxel_sizes, cluster_history, next_object_id, frame_count,
          max_distance, max_age, is_running, thread, data_queue, sensor_data,
          batcher, last>>

----------------------------------------------------------------------------
(* Bounds of the model *)

MaxFrames == 3       \* track_clusters calls explored per behaviour
MaxCentroids == 2    \* centroids per track_clusters call (TrackerSpec)
MaxCoord == 2        \* centroid coordinates range over 0..MaxCoord (TrackerSpec)
MaxTime == 2         \* timestamps range over 1..MaxTime (TrackerSpec)
MaxCamTime == 1      \* camera timestamps range over 1..MaxCamTime
MaxAgeArg == 2       \* max_age is constructed from 0..MaxAgeArg
MaxDistanceArg == 2  \* max_distance is constructed from 1..MaxDistanceArg
MaxRows == 2         \* rows per add_grid_data call (GridSpec)
MaxWeight == 2       \* weights range over 1..MaxWeight (GridSpec)
MaxCount == 3        \* calls that would push a cell above this are not explored
MaxLeftOver == 1     \* ticks that would leave a cell above this are not explored
MaxCams == 2         \* camera records per batch
MaxRays == 1         \* rays (motion pixels) per camera
MaxRayWeight == 1    \* mask values of motion pixels range over 1..MaxRayWeight
MaxQueryIds == 1     \* ids per get_cluster_position / calculate_velocity call
MaxValues == 4       \* length of the lists given to find_largest_window_in_threshold
MaxValue == 4        \* their entries range over 0..MaxValue
MaxThreshold == 3    \* thresholds range over 1..MaxThreshold
MaxTableRows == 3    \* RowIDs of SensorData range over 1..MaxTableRows
MaxCameraId == 3     \* CameraID ranges over 1..MaxCameraId
MaxStamp == 2        \* Timestamp of a row ranges over 0..MaxStamp
MaxDir == 2          \* direction components of rays range over -1..MaxDir
MaxBatchRays == 2    \* rays per call of the raycast kernels
MaxRes == 2          \* resolutions range over 1..MaxRes per axis (ConfigSpec)

\* resolution given to the VoxelTracer constructor
GridRes == <<3, 1, 1>>

----------------------------------------------------------------------------
(* Small helpers *)

RECURSIVE SeqSum(_)
SeqSum(s) == IF s = <<>> THEN 0 ELSE Head(s) + SeqSum(Tail(s))

Last(s) == s[Len(s)]

RECURSIVE Gcd(_, _)
Gcd(a, b) == IF b = 0 THEN a ELSE Gcd(b, a % b)

\* least common multiple of 1..n
RECURSIVE LcmUpTo(_)
LcmUpTo(n) == IF n <= 1 THEN 1 ELSE (LcmUpTo(n - 1) * n) \div Gcd(LcmUpTo(n - 1), n)

\* Squared Euclidean distance of two 3-vectors (np.linalg.norm(a - b) ** 2)
Dist2(a, b) ==
    (a[1] - b[1]) * (a[1] - b[1]) + (a[2] - b[2]) * (a[2] - b[2])
      + (a[3] - b[3]) * (a[3] - b[3])

----------------------------------------------------------------------------
(* ClusterTracker *)

\* ids of the entries of a history, as a set
Ids(hist) == {hist[j].id : j \in 1..Len(hist)}

\* position in the dict order of the entry with this id (0 when absent)
IndexOf(hist, id) ==
    IF id \in Ids(hist) THEN CHOOSE j \in 1..Len(hist) : hist[j].id = id ELSE 0

\* The inner loop of track_clusters: scan the entries in dict order from
\* position j on, carrying best_id_match (<<>> is None) and min_distance
\* (<<>> is float('inf')), both as length <= 1 sequences.
RECURSIVE ScanHistory(_, _, _, _, _, _)
ScanHistory(hist, centroid, maxd, j, best, mind) ==
    IF j > Len(hist) THEN best
    ELSE LET distance == Dist2(centroid, Last(hist[j].centroids))
             closer == (mind = <<>> \/ distance < mind[1])
                         /\ distance < maxd * maxd
         IN  IF closer
             THEN ScanHistory(hist, centroid, maxd, j + 1, <<hist[j].id>>, <<distance>>)
             ELSE ScanHistory(hist, centroid, maxd, j + 1, best, mind)

BestMatch(hist, centroid, maxd) == ScanHistory(hist, centroid, maxd, 1, <<>>, <<>>)

\* UpdateEntry with the assignment to 'last_updated' left out
UpdateEntryKeepsStamp(hist, id, centroid, timestamp, frame) ==
    LET j == IndexOf(hist, id)
    IN  [hist EXCEPT ![j] = [id |-> id,
                             timestamp |-> Append(hist[j].timestamp, timestamp),
                             centroids |-> Append(hist[j].centroids, centroid),
                             last_updated |-> hist[j].last_updated]]

\* The "update old centroid" branch
UpdateEntry(hist, id, centroid, timestamp, frame) ==
    LET j == IndexOf(hist, id)
    IN  [hist EXCEPT ![j] = [id |-> id,
                             timestamp |-> Append(hist[j].timestamp, timestamp),
                             centroids |-> Append(hist[j].centroids, centroid),
                             last_updated |-> frame]]

\* InsertEntry on a mapping that iterates its newest key first
InsertEntryFirst(hist, id, centroid, timestamp, frame) ==
    <<[id |-> id,
       timestamp |-> <<timestamp>>,
       centroids |-> <<centroid>>,
       last_updated |-> frame]>> \o hist

\* The "new centroid" branch: a new key goes to the end of the dict order
InsertEntry(hist, id, centroid, timestamp, frame) ==
    Append(hist, [id |-> id,
                  timestamp |-> <<timestamp>>,
                  centroids |-> <<centroid>>,
                  last_updated |-> frame])

\* TrackOne without the increment of next_object_id
TrackOneKeepsNext(t, centroid, timestamp, frame, maxd) ==
    LET best == BestMatch(t.hist, centroid, maxd)
    IN  IF best # <<>>
        THEN [hist |-> UpdateEntry(t.hist, best[1], centroid, timestamp, frame),
              next |-> t.next,
              ids  |-> Append(t.ids, best[1])]
        ELSE [hist |-> InsertEntry(t.hist, t.next, centroid, timestamp, frame),
              next |-> t.next,
              ids  |-> Append(t.ids, t.next)]

\* One iteration of the outer loop of track_clusters on tracker state
\* t = [hist, next, ids]: returns the state after the iteration.
TrackOne(t, centroid, timestamp, frame, maxd) ==
    LET best == BestMatch(t.hist, centroid, maxd)
    IN  IF best # <<>>
        THEN [hist |-> UpdateEntry(t.hist, best[1], centroid, timestamp, frame),
              next |-> t.next,
              ids  |-> Append(t.ids, best[1])]
        ELSE [hist |-> InsertEntry(t.hist, t.next, centroid, timestamp, frame),
              next |-> t.next + 1,
              ids  |-> Append(t.ids, t.next)]

\* The outer loop: the sequence of states before iteration 1, 2, ..., and
\* after the last one (length Len(centroids) + 1).
RECURSIVE TrackLoop(_, _, _, _, _, _)
TrackLoop(t, centroids, k, timestamp, frame, maxd) ==
    IF k > Len(centroids) THEN <<t>>
    ELSE <<t>> \o TrackLoop(TrackOne(t, centroids[k], timestamp, frame, maxd),
                            centroids, k + 1, timestamp, frame, maxd)

\* TrackClusters with the increment of frame_count inside the centroid loop
TrackClustersPerCentroid(hist, next, frame, maxd, centroids, timestamp) ==
    LET trace == TrackLoop([hist |-> hist, next |-> next, ids |-> <<>>],
                           centroids, 1, timestamp, frame, maxd)
        end == Last(trace)
    IN  [cluster_history |-> end.hist,
         next_object_id  |-> end.next,
         frame_count     |-> frame + Len(centroids),
         updated_ids     |-> end.ids,
         trace           |-> trace]

\* track_clusters(centroids, timestamp) on a tracker with the given fields:
\* the new fields, the returned updated_ids and the per-iteration trace.
TrackClusters(hist, next, frame, maxd, centroids, timestamp) ==
    LET trace == TrackLoop([hist |-> hist, next |-> next, ids |-> <<>>],
                           centroids, 1, timestamp, frame, maxd)
        end == Last(trace)
    IN  [cluster_history |-> end.hist,
         next_object_id  |-> end.next,
         frame_count     |-> frame + 1,
         updated_ids     |-> end.ids,
         trace           |-> trace]

\* Expired with >= in place of >
ExpiredEarly(hist, frame, age) ==
    {hist[j].id : j \in {i \in 1..Len(hist) : frame - hist[i].last_updated >= age}}

\* cleanup_old_clusters: the ids collected in `remove`
Expired(hist, frame, age) ==
    {hist[j].id : j \in {i \in 1..Len(hist) : frame - hist[i].last_updated > age}}

\* deleting keys from a dict keeps the order of the remaining entries
RECURSIVE DeleteIds(_, _)
DeleteIds(hist, remove) ==
    IF hist = <<>> THEN <<>>
    ELSE IF Head(hist).id \in remove
         THEN DeleteIds(Tail(hist), remove)
         ELSE <<Head(hist)>> \o DeleteIds(Tail(hist), remove)

\* CleanupOldClusters measuring ages from the frame just tracked
CleanupOldClustersFromLastFrame(hist, frame, age) ==
    DeleteIds(hist, Expired(hist, frame - 1, age))

CleanupOldClusters(hist, frame, age) == DeleteIds(hist, Expired(hist, frame, age))

\* get_cluster_position: id -> most recent centroid
GetClusterPosition(hist, id) == Last(hist[IndexOf(hist, id)].centroids)

\* get_cluster_position(ids) / calculate_velocity(ids) as called: the dict
\* they return, as the sequence of its values in the order of ids, or
\* KeyError when an id is not a key of cluster_history
GetClusterPositions(hist, ids) ==
    IF \E k \in 1..Len(ids) : ids[k] \notin Ids(hist)
    THEN [raised |-> "KeyError", values |-> <<>>]
    ELSE [raised |-> "", values |-> [k \in 1..Len(ids) |-> GetClusterPosition(hist, ids[k])]]

\* calculate_velocity: id -> (c[-1] - c[-2]) / (t[-1] - t[-2]), kept as the
\* unreduced fraction [num, den]; (0, 0, 0) for a single observation.
CalculateVelocity(hist, id) ==
    LET e == hist[IndexOf(hist, id)]
        n == Len(e.centroids)
        m == Len(e.timestamp)
    IN  IF n < 2 \/ m < 2
        THEN [num |-> <<0, 0, 0>>, den |-> 1]
        ELSE [num |-> <<e.centroids[n][1] - e.centroids[n - 1][1],
                        e.centroids[n][2] - e.centroids[n - 1][2],
                        e.centroids[n][3] - e.centroids[n - 1][3]>>,
              den |-> e.timestamp[m] - e.timestamp[m - 1]]

CalculateVelocities(hist, ids) ==
    IF \E k \in 1..Len(ids) : ids[k] \notin Ids(hist)
    THEN [raised |-> "KeyError", values |-> <<>>]
    ELSE [raised |-> "", values |-> [k \in 1..Len(ids) |-> CalculateVelocity(hist, ids[k])]]

----------------------------------------------------------------------------
(* VoxelTracer: the accumulator grid *)

\* indices of an array of shape gs, as 3-tuples (np.zeros(grid_size))
Cells(gs) ==
    {<<i, j, k>> : i \in 0..(gs[1] - 1), j \in 0..(gs[2] - 1), k \in 0..(gs[3] - 1)}

\* clear_grid_data / __init__: np.zeros(self.grid_size, dtype=np.uint64)
ZeroGrid(gs) == [c \in Cells(gs) |-> 0]

\* add_grid_data: voxel_grid[voxels[:,0], voxels[:,1], voxels[:,2]] += data.
\* NumPy evaluates this as  tmp = voxel_grid[idx]; tmp += data;
\* voxel_grid[idx] = tmp : every row k writes old + data[k] to its cell, and
\* for a cell named by several rows one of those writes is the one that
\* stays (NumPy leaves open which; in practice the last).  The result is
\* therefore a set of grids, one per choice `w` of the row that stays.
\* Counts are uint64; the model keeps them far below 2^64.
AddGridData(grid, voxels, data) ==
    LET rows == 1..Len(voxels)
        hit == {voxels[k] : k \in rows}
        winners == {w \in [hit -> rows] : \A c \in hit : voxels[w[c]] = c}
    IN  {[c \in DOMAIN grid |->
            IF c \in hit THEN grid[c] + data[w[c]] ELSE grid[c]] : w \in winners}

\* (grid_max - grid_min) / grid_size, kept per axis as the quotient it is:
\* finite if den # 0, +inf or -inf by the sign of num if den = 0 (a float64
\* array divided by an int64 array; NumPy warns and does not raise)
Quotients(gmax, gmin, gsize) ==
    [a \in 1..3 |-> [num |-> gmax[a] - gmin[a], den |-> gsize[a]]]

\* num / den is a float64 without rounding error
ExactQuotient(q) == q.den \in {1, 2, 4, 8, -1, -2, -4, -8}

\* np.round(x / (q.num / q.den)).astype(np.int64) for an integer x and a
\* quotient q with q.num # 0: 0 if q is infinite, otherwise x * q.den /
\* q.num rounded to the nearest integer, halves to the even one.  Where
\* q.num / q.den is itself rounded the float quotient of a half may fall on
\* either side of it, so both neighbours are possible.
RoundedQuotient(x, q) ==
    IF q.den = 0 THEN {0}
    ELSE LET p == IF q.num < 0 THEN 0 - x * q.den ELSE x * q.den
             d == IF q.num < 0 THEN 0 - q.num ELSE q.num
             f == p \div d
             r == p - f * d
         IN  IF 2 * r < d THEN {f}
             ELSE IF 2 * r > d THEN {f + 1}
             ELSE IF ExactQuotient(q) THEN {IF f % 2 = 0 THEN f ELSE f + 1}
             ELSE {f, f + 1}

\* np.zeros(shape) raises ValueError for a negative dimension
ZerosRaises(gs) == \E a \in 1..3 : gs[a] < 0

----------------------------------------------------------------------------
(* Floating-point values of the raycast kernels.  A value is a finite       *)
(* number, +inf, -inf or NaN: [k |-> "fin", v |-> n], [k |-> "pinf"], ...   *)
(* Finite numbers are computed exactly (rounding is not modelled).  A ray's  *)
(* direction is kept as an integer vector d, a positive multiple of its      *)
(* norm_dir; ray parameters t are kept as TScale * t * |norm_dir| / |d| ...  *)
(* that is, in the unit in which  position = origin + d * t / TScale.  All   *)
(* comparisons the kernels make are between parameters of one ray, so the    *)
(* positive factor does not change them.  Coordinates are multiples of       *)
(* TScale, which makes every finite quotient below an integer.               *)

TScale == LcmUpTo(MaxDir)

Fin(v) == [k |-> "fin", v |-> v]
PInf == [k |-> "pinf", v |-> 0]
NInf == [k |-> "ninf", v |-> 0]
NaN == [k |-> "nan", v |-> 0]

\* a < b on floats: false when either is NaN
XLt(a, b) ==
    /\ a.k # "nan" /\ b.k # "nan"
    /\ \/ a.k = "ninf" /\ b.k # "ninf"
       \/ b.k = "pinf" /\ a.k # "pinf"
       \/ a.k = "fin" /\ b.k = "fin" /\ a.v < b.v

\* a + b on floats: inf + (-inf) is NaN
XAdd(a, b) ==
    IF a.k = "nan" \/ b.k = "nan" THEN NaN
    ELSE IF a.k = "fin" /\ b.k = "fin" THEN Fin(a.v + b.v)
    ELSE IF a.k = "fin" THEN b
    ELSE IF b.k = "fin" THEN a
    ELSE IF a.k = b.k THEN a
    ELSE NaN

\* num / d and num * (1.0 / d) on float arrays, as a ray parameter: x / 0 is
\* +inf, -inf or NaN by the sign of x
Quot(num, d) ==
    IF d = 0
    THEN (IF num > 0 THEN PInf ELSE IF num < 0 THEN NInf ELSE NaN)
    ELSE IF d > 0 THEN Fin((TScale * num) \div d)
    ELSE Fin((0 - TScale * num) \div (0 - d))

\* min(a, b) and max(a, b) of two floats as Python orders them: the first
\* argument unless the second is smaller (larger)
XMin(a, b) == IF XLt(b, a) THEN b ELSE a
XMax(a, b) == IF XLt(a, b) THEN b ELSE a

\* np.min / np.max of a column of two: NaN if either is NaN
NpMin(a, b) == IF a.k = "nan" \/ b.k = "nan" THEN NaN ELSE XMin(a, b)
NpMax(a, b) == IF a.k = "nan" \/ b.k = "nan" THEN NaN ELSE XMax(a, b)

\* np.nanmin / np.nanmax of a column of two: NaNs are ignored
NanMin(a, b) == IF a.k = "nan" THEN b ELSE IF b.k = "nan" THEN a ELSE XMin(a, b)
NanMax(a, b) == IF a.k = "nan" THEN b ELSE IF b.k = "nan" THEN a ELSE XMax(a, b)

\* ray_aabb: the loop over axes 1, 2 (here 2, 3), carrying tmin and tmax
RECURSIVE RayAabbLoop(_, _, _, _, _, _)
RayAabbLoop(ray, boxMin, boxMax, axis, tmin, tmax) ==
    IF axis > 3 THEN [hit |-> XLt(XMax(tmin, Fin(0)), tmax), t_entry |-> tmin]
    ELSE LET t1 == Quot(boxMin[axis] - ray.origin[axis], ray.dir[axis])
             t2 == Quot(boxMax[axis] - ray.origin[axis], ray.dir[axis])
             tmin2 == XMax(tmin, XMin(XMin(t1, t2), tmax))
             tmax2 == XMin(tmax, XMax(XMax(t1, t2), tmin2))
         IN  RayAabbLoop(ray, boxMin, boxMax, axis + 1, tmin2, tmax2)

\* ray_aabb(ray, boxMin, boxMax, t_entry): whether the ray meets the box,
\* and its entry parameter
RayAabb(ray, boxMin, boxMax) ==
    LET t1 == Quot(boxMin[1] - ray.origin[1], ray.dir[1])
        t2 == Quot(boxMax[1] - ray.origin[1], ray.dir[1])
    IN  RayAabbLoop(ray, boxMin, boxMax, 2, XMin(t1, t2), XMax(t1, t2))

\* ray_aabb_batch, for one row of the batch
RECURSIVE RayAabbBatchLoop(_, _, _, _, _, _)
RayAabbBatchLoop(ray, boxMin, boxMax, axis, tmin, tmax) ==
    IF axis > 3 THEN [hit |-> XLt(XMax(tmin, Fin(0)), tmax), t_entry |-> tmin]
    ELSE LET t1 == Quot(boxMin[axis] - ray.origin[axis], ray.dir[axis])
             t2 == Quot(boxMax[axis] - ray.origin[axis], ray.dir[axis])
         IN  RayAabbBatchLoop(ray, boxMin, boxMax, axis + 1,
                              NanMax(tmin, NpMin(t1, t2)),
                              NanMin(tmax, NpMax(t1, t2)))

RayAabbBatch(ray, boxMin, boxMax) ==
    LET t1 == Quot(boxMin[1] - ray.origin[1], ray.dir[1])
        t2 == Quot(boxMax[1] - ray.origin[1], ray.dir[1])
    IN  RayAabbBatchLoop(ray, boxMin, boxMax, 2, NpMin(t1, t2), NpMax(t1, t2))

----------------------------------------------------------------------------
(* The raycast kernels.  A ray is [origin, dir, weight]; grid_min, grid_max *)
(* and voxel_size are integer vectors (multiples of TScale), grid_size the  *)
(* cells per axis (gmin, gmax, vsize, gsize below).  Axes are 1, 2, 3 here  *)
(* and 0, 1, 2 in the code.                                                 *)

MAX_RAY_STEPS == 512

Sign(x) == IF x > 0 THEN 1 ELSE IF x < 0 THEN -1 ELSE 0
Abs(x) == IF x < 0 THEN 0 - x ELSE x
Clip(x, lo, hi) == IF x > hi THEN hi ELSE IF x < lo THEN lo ELSE x

\* an inside test that lets the index grid_size[axis] pass
InGridInclusive(voxel, gsize) ==
    \A axis \in 1..3 : voxel[axis] >= 0 /\ voxel[axis] <= gsize[axis]

\* (current_voxels >= 0) & (current_voxels < grid_size), reduced by
\* logical_and over the axes
InGrid(voxel, gsize) ==
    \A axis \in 1..3 : voxel[axis] >= 0 /\ voxel[axis] < gsize[axis]

\* The initialisation both kernels make for a ray that meets the grid at
\* t_entry: step, delta, the clamped entry voxel and tMax as first computed
\* (a zero direction component gives x / 0 there).
RayStart(ray, t_entry, gmin, gsize, vsize) ==
    LET te == IF t_entry.v > 0 THEN t_entry.v ELSE 0
        start == [a \in 1..3 |-> ray.origin[a] + (ray.dir[a] * te) \div TScale]
        step == [a \in 1..3 |-> Sign(ray.dir[a])]
        current == [a \in 1..3 |->
                      Clip((start[a] - gmin[a]) \div vsize[a],
                           0, gsize[a] - 1)]
        next == [a \in 1..3 |->
                   gmin[a]
                     + (current[a] + (IF step[a] > 0 THEN 1 ELSE 0)) * vsize[a]]
    IN  [step |-> step,
         delta |-> [a \in 1..3 |-> Quot(vsize[a], Abs(ray.dir[a]))],
         voxel |-> current,
         tMax |-> [a \in 1..3 |-> Quot(next[a] - ray.origin[a], ray.dir[a])],
         weight |-> ray.weight]

\* the axis the scalar kernel steps on: the if / elif / else of its loop
ScalarAxis(tMax) ==
    IF XLt(tMax[1], tMax[2]) /\ XLt(tMax[1], tMax[3]) THEN 1
    ELSE IF XLt(tMax[2], tMax[3]) THEN 2
    ELSE 3

\* the `while (True)` loop of _raycast_numba from state r on: the voxels
\* appended by it
RECURSIVE ScalarLoop(_, _)
ScalarLoop(r, gsize) ==
    LET axis == ScalarAxis(r.tMax)
        voxel == [r.voxel EXCEPT ![axis] = @ + r.step[axis]]
    IN  IF voxel[axis] < 0 \/ voxel[axis] >= gsize[axis] THEN <<>>
        ELSE <<voxel>> \o
             ScalarLoop([r EXCEPT !.voxel = voxel,
                                  !.tMax[axis] = XAdd(@, r.delta[axis])],
                        gsize)

\* the iterations of that loop, the one that leaves it included: the tMax
\* each found and the axis it chose (what the loop does, not what it returns;
\* only the properties read it)
RECURSIVE ScalarSteps(_, _)
ScalarSteps(r, gsize) ==
    LET axis == ScalarAxis(r.tMax)
        voxel == [r.voxel EXCEPT ![axis] = @ + r.step[axis]]
    IN  <<[tMax |-> r.tMax, axis |-> axis]>> \o
        (IF voxel[axis] < 0 \/ voxel[axis] >= gsize[axis] THEN <<>>
         ELSE ScalarSteps([r EXCEPT !.voxel = voxel,
                                    !.tMax[axis] = XAdd(@, r.delta[axis])],
                          gsize))

\* the state in which _raycast_numba enters its loop for a ray that meets the
\* grid at t_entry: tMax is set to inf where the direction is 0
ScalarStart(ray, t_entry, gmin, gsize, vsize) ==
    LET r0 == RayStart(ray, t_entry, gmin, gsize, vsize)
    IN  [r0 EXCEPT !.tMax = [a \in 1..3 |->
                                IF ray.dir[a] = 0 THEN PInf ELSE r0.tMax[a]]]

\* _raycast_numba(ray, grid_min, grid_max, grid_size, voxel_size): the list
\* of voxels
RaycastNumba(ray, gmin, gmax, gsize, vsize) ==
    LET hit == RayAabb(ray, gmin, gmax)
        r == ScalarStart(ray, hit.t_entry, gmin, gsize, vsize)
    IN  IF ~hit.hit THEN <<>>
        ELSE <<r.voxel>> \o ScalarLoop(r, gsize)

\* the iterations of the loop in that call
RaycastNumbaSteps(ray, gmin, gmax, gsize, vsize) ==
    LET hit == RayAabb(ray, gmin, gmax)
    IN  IF ~hit.hit THEN <<>>
        ELSE ScalarSteps(ScalarStart(ray, hit.t_entry, gmin, gsize, vsize), gsize)

\* np.argmin of a row of tMax: the first NaN if there is one, otherwise the
\* first of the smallest values
ArgMin(tMax) ==
    IF \E a \in 1..3 : tMax[a].k = "nan"
    THEN CHOOSE a \in 1..3 : tMax[a].k = "nan" /\ \A b \in 1..(a - 1) : tMax[b].k # "nan"
    ELSE CHOOSE a \in 1..3 :
            /\ \A b \in 1..3 : ~XLt(tMax[b], tMax[a])
            /\ \A b \in 1..(a - 1) : XLt(tMax[a], tMax[b])

\* the rows of the sequence rs whose flag in `keep` is set, in order: the
\* voxel and the weight, as the arrays hold them, and beside them the
\* position of the ray in the batch, the iteration that appended the row (0
\* for the entry voxel), the tMax that iteration found and the axis it chose,
\* which the arrays do not hold and which only the properties read
RECURSIVE Compress(_, _, _)
Compress(rs, keep, i) ==
    IF i > Len(rs) THEN <<>>
    ELSE (IF keep[i] THEN <<[voxel |-> rs[i].voxel, weight |-> rs[i].weight,
                             ray |-> rs[i].ray, iter |-> rs[i].iter,
                             before |-> rs[i].before, axis |-> rs[i].axis]>>
          ELSE <<>>) \o Compress(rs, keep, i + 1)

\* One iteration of the `for _ in range(MAX_RAY_STEPS)` loop of
\* _raycast_batch, rs being the rows of the rays that meet the grid:
\* step_voxels moves every row, also those that have left the grid;
\* tmax_update changes the rows inside the grid; the rows inside the grid
\* are appended.  Returns the rows after the iteration, what it appended
\* and whether it left the loop by break.
BatchStep(rs, gsize) ==
    LET ind == [i \in 1..Len(rs) |-> ArgMin(rs[i].tMax)]
        moved == [i \in 1..Len(rs) |->
                    [rs[i] EXCEPT !.voxel[ind[i]] = @ + rs[i].step[ind[i]],
                                  !.iter = @ + 1,
                                  !.before = rs[i].tMax, !.axis = ind[i]]]
        inside_grid == [i \in 1..Len(rs) |-> InGrid(moved[i].voxel, gsize)]
        updated == [i \in 1..Len(rs) |->
                      IF inside_grid[i]
                      THEN [moved[i] EXCEPT !.tMax[ind[i]] =
                                               XAdd(@, moved[i].delta[ind[i]])]
                      ELSE moved[i]]
    IN  IF \A i \in 1..Len(rs) : ~inside_grid[i]
        THEN [rs |-> moved, rows |-> <<>>, done |-> TRUE]
        ELSE [rs |-> updated, rows |-> Compress(updated, inside_grid, 1),
              done |-> FALSE]

\* n >= 1 iterations of the loop (the first half of them, then the rest
\* unless the loop was left)
RECURSIVE BatchLoop(_, _, _)
BatchLoop(rs, gsize, n) ==
    IF n = 1 THEN BatchStep(rs, gsize)
    ELSE LET half == BatchLoop(rs, gsize, n \div 2)
             rest == BatchLoop(half.rs, gsize, n - n \div 2)
         IN  IF half.done THEN half
             ELSE [rs |-> rest.rs, rows |-> half.rows \o rest.rows,
                   done |-> rest.done]

\* the rays of a batch that meet the grid, initialised, in batch order
RECURSIVE Intersected(_, _, _, _, _, _)
Intersected(rays, i, gmin, gmax, gsize, vsize) ==
    IF i > Len(rays) THEN <<>>
    ELSE LET hit == RayAabbBatch(rays[i], gmin, gmax)
             s == RayStart(rays[i], hit.t_entry, gmin, gsize, vsize)
         IN  (IF hit.hit
              THEN <<[step |-> s.step, delta |-> s.delta, voxel |-> s.voxel,
                      tMax |-> s.tMax, weight |-> s.weight,
                      ray |-> i, iter |-> 0, before |-> s.tMax, axis |-> 0]>>
              ELSE <<>>)
               \o Intersected(rays, i + 1, gmin, gmax, gsize, vsize)

\* _raycast_batch(rays, grid_min, grid_max, grid_size, voxel_size): the rows
\* of np.concatenate(voxels) with those of np.concatenate(data) beside them
RaycastBatch(rays, gmin, gmax, gsize, vsize) ==
    LET rs == Intersected(rays, 1, gmin, gmax, gsize, vsize)
    IN  Compress(rs, [i \in 1..Len(rs) |-> TRUE], 1)
          \o BatchLoop(rs, gsize, MAX_RAY_STEPS).rows

----------------------------------------------------------------------------
(* Percentile extraction and clustering *)

\* positions are kept in units of 1/PosScale voxel, timestamps in 1/TsScale
PosScale == LcmUpTo(Cardinality(Cells(GridRes)))
TsScale == LcmUpTo(MaxCams)

\* C (row-major) order of indices, the order of np.nonzero
CellLess(a, b) ==
    \/ a[1] < b[1]
    \/ a[1] = b[1] /\ a[2] < b[2]
    \/ a[1] = b[1] /\ a[2] = b[2] /\ a[3] < b[3]

RECURSIVE SortCells(_)
SortCells(S) ==
    IF S = {} THEN <<>>
    ELSE LET m == CHOOSE a \in S : \A b \in S \ {a} : CellLess(a, b)
         IN  <<m>> \o SortCells(S \ {m})

\* the values grid[c], c in S, in ascending order
RECURSIVE SortedValues(_, _)
SortedValues(grid, S) ==
    IF S = {} THEN <<>>
    ELSE LET m == CHOOSE a \in S : \A b \in S : grid[a] <= grid[b]
         IN  <<grid[m]>> \o SortedValues(grid, S \ {m})

\* 1000 * np.percentile(v, permille / 10) for ascending v, by linear
\* interpolation between the two closest ranks
Percentile1000(v, permille) ==
    LET pos == (Len(v) - 1) * permille
        lo  == pos \div 1000
        g   == pos % 1000
    IN  IF g = 0 THEN 1000 * v[lo + 1]
        ELSE 1000 * v[lo + 1] + g * (v[lo + 2] - v[lo + 1])

\* an extraction that keeps only the cells strictly above the percentile
ExtractAbovePercentile(grid, permille) ==
    LET nonzero == {c \in DOMAIN grid : grid[c] # 0}
        p == Percentile1000(SortedValues(grid, nonzero), permille)
    IN  IF nonzero = {} THEN [none |-> TRUE, points |-> <<>>]
        ELSE IF p <= 0 THEN [none |-> TRUE, points |-> <<>>]
        ELSE [none |-> FALSE,
              points |-> SortCells({c \in DOMAIN grid : 1000 * grid[c] > p})]

\* extract_percentile_index(data, percentile): none, or the indices of the
\* cells with data >= p in np.nonzero order
ExtractPercentileIndex(grid, permille) ==
    LET nonzero == {c \in DOMAIN grid : grid[c] # 0}
        p == Percentile1000(SortedValues(grid, nonzero), permille)
    IN  IF nonzero = {} THEN [none |-> TRUE, points |-> <<>>]
        ELSE IF p <= 0 THEN [none |-> TRUE, points |-> <<>>]
        ELSE [none |-> FALSE,
              points |-> SortCells({c \in DOMAIN grid : 1000 * grid[c] >= p})]

\* pipeline.py: VOXEL_SIZE, EPS_CORNER = sqrt(3) * VOXEL_SIZE (squared here)
VOXEL_SIZE == 10
EpsCorner2 == 3 * VOXEL_SIZE * VOXEL_SIZE
\* DBSCAN(eps=eps, min_samples=3)
MinSamples == 3
\* extract_percentile_index(self.voxel_tracer.voxel_grid, 99.9)
Permille == 999

\* DBSCAN: the eps-neighbourhood of point i (itself included)
Neighbours(points, eps2, i) ==
    {j \in 1..Len(points) : Dist2(points[i], points[j]) <= eps2}

IsCore(points, eps2, i) == Cardinality(Neighbours(points, eps2, i)) >= MinSamples

\* everything density-reachable from the points of S
RECURSIVE Reachable(_, _, _)
Reachable(points, eps2, S) ==
    LET T == S \cup UNION {Neighbours(points, eps2, j) :
                             j \in {i \in S : IsCore(points, eps2, i)}}
    IN  IF T = S THEN S ELSE Reachable(points, eps2, T)

\* the clusters in label order: points are visited in input order, an
\* unlabelled core point starts a cluster that takes every point reachable
\* from it that no earlier cluster has taken
RECURSIVE DbscanFrom(_, _, _, _)
DbscanFrom(points, eps2, i, labelled) ==
    IF i > Len(points) THEN <<>>
    ELSE IF i \notin labelled /\ IsCore(points, eps2, i)
         THEN LET members == Reachable(points, eps2, {i}) \ labelled
              IN  <<members>> \o DbscanFrom(points, eps2, i + 1, labelled \cup members)
         ELSE DbscanFrom(points, eps2, i + 1, labelled)

\* np.mean(data[labels == klass], axis=0), in units of 1/PosScale
Mean(points, members) ==
    LET n == Cardinality(members)
        RECURSIVE Total(_, _)
        Total(S, axis) ==
            IF S = {} THEN 0
            ELSE LET i == CHOOSE x \in S : TRUE
                 IN  points[i][axis] + Total(S \ {i}, axis)
    IN  <<(PosScale * Total(members, 1)) \div n,
          (PosScale * Total(members, 2)) \div n,
          (PosScale * Total(members, 3)) \div n>>

\* get_cluster_centers(data, eps): one centroid per cluster label
GetClusterCenters(points, eps2) ==
    LET clusters == DbscanFrom(points, eps2, 1, {})
    IN  [k \in 1..Len(clusters) |-> Mean(points, clusters[k])]

----------------------------------------------------------------------------
(* SQLiteBatcher and find_largest_window_in_threshold.  Timestamps and the  *)
(* threshold are integers in a common unit; lists are indexed from 1 here   *)
(* and from 0 in the code, and the window is returned with the code's       *)
(* 0-based indices.                                                         *)

\* the inner while loop: left after `while values[right] - values[left] >=
\* threshold: left += 1` (0-based right and left)
RECURSIVE AdvanceLeft(_, _, _, _)
AdvanceLeft(values, threshold, right, left) ==
    IF values[right + 1] - values[left + 1] >= threshold
    THEN AdvanceLeft(values, threshold, right, left + 1)
    ELSE left

\* the for loop from `right` on, carrying left, maxLeft and maxRight
RECURSIVE WindowScan(_, _, _, _, _, _)
WindowScan(values, threshold, right, left, maxLeft, maxRight) ==
    IF right >= Len(values) THEN <<maxLeft, maxRight>>
    ELSE LET l == AdvanceLeft(values, threshold, right, left)
         IN  IF right - l > maxRight - maxLeft
             THEN WindowScan(values, threshold, right + 1, l, l, right)
             ELSE WindowScan(values, threshold, right + 1, l, maxLeft, maxRight)

\* FindLargestWindowInThreshold with >= in place of > in the comparison of
\* the window lengths
FindLargestWindowKeepsLast(values, threshold) ==
    LET RECURSIVE Scan(_, _, _, _)
        Scan(right, left, maxLeft, maxRight) ==
            IF right >= Len(values) THEN <<maxLeft, maxRight>>
            ELSE LET l == AdvanceLeft(values, threshold, right, left)
                 IN  IF right - l >= maxRight - maxLeft
                     THEN Scan(right + 1, l, l, right)
                     ELSE Scan(right + 1, l, maxLeft, maxRight)
    IN  Scan(0, 0, 0, 0)

\* find_largest_window_in_threshold(values, threshold)
FindLargestWindowInThreshold(values, threshold) ==
    WindowScan(values, threshold, 0, 0, 0, 0)

\* Python's s[a:b] for 0 <= a, 0 <= b
Slice(s, a, b) ==
    LET hi == IF b < Len(s) THEN b ELSE Len(s)
    IN  IF a >= hi THEN <<>> ELSE [i \in 1..(hi - a) |-> s[a + i]]

\* SQLiteBatcher(db_path, 0.5, soft_delete=True), the batcher of pipeline.py;
\* the threshold is one unit
DefaultBatcher == [threshold |-> 1, soft_delete |-> TRUE]

\* A row of SensorData: [rowid, camera, timestamp, deleted], deleted being
\* `isDeleted IS NOT NULL`.
\* The SELECT of batch(): for every CameraID among the rows with isDeleted
\* NULL one row with the minimum Timestamp of that camera (SQLite takes the
\* bare columns from one such row), ordered by Timestamp ascending (rows
\* with equal Timestamp in any order): the set of the possible row lists.
SelectOldest(table) ==
    LET live == {r \in table : ~r.deleted}
        cams == {r.camera : r \in live}
        picks == {f \in [cams -> live] :
                    \A c \in cams :
                       /\ f[c].camera = c
                       /\ \A r \in live : r.camera = c => f[c].timestamp <= r.timestamp}
        n == Cardinality(cams)
    IN  UNION {{q \in [1..n -> {f[c] : c \in cams}] :
                  /\ \A i, j \in 1..n : i < j => q[i] # q[j]
                  /\ \A i, j \in 1..n : i < j => q[i].timestamp <= q[j].timestamp}
               : f \in picks}

\* the UPDATE ... SET isDeleted = 1 / DELETE FROM of batch(), committed
DeleteRows(table, ids, soft) ==
    IF soft
    THEN {IF r.rowid \in ids THEN [r EXCEPT !.deleted = TRUE] ELSE r : r \in table}
    ELSE {r \in table : r.rowid \notin ids}

\* batch(): its possible outcomes [output, table] when the database raises
\* sqlite3.Error at stage `error` ("none": no error; "connect": in
\* sqlite3.connect; "select": in the SELECT; "delete": in executemany or in
\* the commit at the end of the with block, which rolls the deletes back).
\* The output rows are kept whole, RowID included, to tell which rows were
\* returned.
SQLiteBatch(table, cfg, error) ==
    IF error \in {"connect", "select"}
    THEN {[output |-> <<>>, table |-> table]}
    ELSE {LET timestamps == [i \in 1..Len(rows) |-> rows[i].timestamp]
              w == FindLargestWindowInThreshold(timestamps, cfg.threshold)
              output == Slice(rows, w[1], w[2] + 1)
              ids == Slice(rows, 0, w[2] + 1)
              delete_ids == {ids[i].rowid : i \in 1..Len(ids)}
          IN  [output |-> output,
               table |-> IF error = "delete" THEN table
                         ELSE DeleteRows(table, delete_ids, cfg.soft_delete)]
            : rows \in SelectOldest(table)}

----------------------------------------------------------------------------
(* Initial state: the objects as constructed at the bottom of pipeline.py *)

\* no call was made yet
Constructed == [op |-> "init"]

InitWith(distances, ages, batchers, lasts) ==
    /\ grid_size = GridRes
    /\ grid_min = <<0, 0, 0>>
    /\ grid_max = GridRes
    /\ voxel_sizes = Quotients(GridRes, <<0, 0, 0>>, GridRes)
    /\ voxel_grid = ZeroGrid(GridRes)
    /\ cluster_history = <<>>
    /\ next_object_id = 0
    /\ frame_count = 0
    /\ max_distance \in distances
    /\ max_age \in ages
    /\ is_running = FALSE
    /\ thread = "started"
    /\ data_queue = <<>>
    /\ sensor_data = {}
    /\ batcher \in batchers
    /\ last \in lasts

\* the tracker is constructed from MAX_CLUSTER_DISTANCE and MAX_CLUSTER_AGE
Init == InitWith({MaxDistanceArg}, 0..MaxAgeArg, {DefaultBatcher}, {Constructed})

\* a tracker or a grid on its own, with any constructor arguments
UnitInit == InitWith(1..MaxDistanceArg, 0..MaxAgeArg, {DefaultBatcher}, {Constructed})

\* an SQLiteBatcher on its own, with any constructor arguments
BatcherInit ==
    InitWith({MaxDistanceArg}, {MaxAgeArg},
             [threshold : 1..MaxThreshold, soft_delete : BOOLEAN], {Constructed})

----------------------------------------------------------------------------
(* GridSpec: a VoxelTracer's grid under add_grid_data and clear_grid_data *)

\* sequences over S of length 0..n
SeqsUpTo(S, n) == UNION {[1..m -> S] : m \in 0..n}

AddGridDataCall ==
    \E voxels \in SeqsUpTo(Cells(grid_size), MaxRows) :
      \E data \in [1..Len(voxels) -> 1..MaxWeight] :
        \E g \in AddGridData(voxel_grid, voxels, data) :
          /\ \A c \in DOMAIN g : g[c] <= MaxCount
          /\ voxel_grid' = g
          /\ last' = [op |-> "add_grid_data", before |-> voxel_grid,
                      voxels |-> voxels, data |-> data]
          /\ UNCHANGED <<boxVars, batcherVars, grid_size, trackerVars, paramVars, loopVars>>

ClearGridDataCall ==
    /\ voxel_grid' = IF ZerosRaises(grid_size) THEN voxel_grid
                     ELSE ZeroGrid(grid_size)
    /\ last' = [op |-> "clear_grid_data"]
    /\ UNCHANGED <<boxVars, batcherVars, grid_size, trackerVars, paramVars, loopVars>>

GridNext == AddGridDataCall \/ ClearGridDataCall

GridSpec == UnitInit /\ [][GridNext]_vars

----------------------------------------------------------------------------
(* TrackerSpec: a ClusterTracker under calls of its methods in any order *)

\* centroids offered to track_clusters: points on the first axis
Points == {<<x, 0, 0>> : x \in 0..MaxCoord}

TrackClustersCall ==
    /\ frame_count < MaxFrames
    /\ \E centroids \in SeqsUpTo(Points, MaxCentroids), timestamp \in 1..MaxTime :
         LET r == TrackClusters(cluster_history, next_object_id, frame_count,
                                max_distance, centroids, timestamp)
         IN  /\ cluster_history' = r.cluster_history
             /\ next_object_id' = r.next_object_id
             /\ frame_count' = r.frame_count
             /\ last' = [op |-> "track_clusters", centroids |-> centroids,
                         timestamp |-> timestamp, frame |-> frame_count,
                         updated_ids |-> r.updated_ids, trace |-> r.trace]
    /\ UNCHANGED <<boxVars, batcherVars, tracerVars, paramVars, loopVars>>

CleanupOldClustersCall ==
    /\ cluster_history' = CleanupOldClusters(cluster_history, frame_count, max_age)
    /\ last' = [op |-> "cleanup_old_clusters", before |-> cluster_history]
    /\ UNCHANGED <<boxVars, batcherVars, next_object_id, frame_count, tracerVars, paramVars, loopVars>>

\* the two queries, on ids that were allocated at some time, explored in
\* the states from which track_clusters is explored
GetClusterPositionCall ==
    /\ frame_count < MaxFrames
    /\ \E ids \in SeqsUpTo(0..(next_object_id - 1), MaxQueryIds) :
         last' = [op |-> "get_cluster_position", ids |-> ids,
                  result |-> GetClusterPositions(cluster_history, ids)]
    /\ UNCHANGED <<boxVars, batcherVars, trackerVars, tracerVars, paramVars, loopVars>>

CalculateVelocityCall ==
    /\ frame_count < MaxFrames
    /\ \E ids \in SeqsUpTo(0..(next_object_id - 1), MaxQueryIds) :
         last' = [op |-> "calculate_velocity", ids |-> ids,
                  result |-> CalculateVelocities(cluster_history, ids)]
    /\ UNCHANGED <<boxVars, batcherVars, trackerVars, tracerVars, paramVars, loopVars>>

TrackerNext ==
    \/ TrackClustersCall
    \/ CleanupOldClustersCall
    \/ GetClusterPositionCall
    \/ CalculateVelocityCall

TrackerSpec == UnitInit /\ [][TrackerNext]_vars

----------------------------------------------------------------------------
(* WindowSpec: direct calls of find_largest_window_in_threshold.            *)
(* BatcherSpec: an SQLiteBatcher on a table that a producer fills.          *)

\* ascending lists over 0..MaxValue, of length 1..MaxValues
SortedLists ==
    {v \in SeqsUpTo(0..MaxValue, MaxValues) :
        v # <<>> /\ \A i \in 1..(Len(v) - 1) : v[i] <= v[i + 1]}

\* [0.0, 0.05, 0.1, 0.4, 0.5] with threshold 0.2, in units of 0.05
ExampleValues == <<0, 1, 2, 8, 10>>
ExampleThreshold == 4

FindLargestWindowCall ==
    /\ \E in \in (SortedLists \X (1..MaxThreshold))
                    \cup {<<ExampleValues, ExampleThreshold>>} :
         last' = [op |-> "find_largest_window_in_threshold",
                  values |-> in[1], threshold |-> in[2],
                  result |-> FindLargestWindowInThreshold(in[1], in[2])]
    /\ UNCHANGED <<boxVars, batcherVars, tracerVars, trackerVars, paramVars, loopVars>>

\* the producer inserts a row: RowID INTEGER PRIMARY KEY is one more than
\* the largest RowID in the table, isDeleted is NULL
InsertSensorData ==
    /\ \E camera \in 1..MaxCameraId, timestamp \in 0..MaxStamp :
         LET used == {r.rowid : r \in sensor_data}
             rowid == IF used = {} THEN 1
                      ELSE 1 + CHOOSE m \in used : \A x \in used : x <= m
         IN  /\ rowid <= MaxTableRows
             /\ sensor_data' = sensor_data \cup
                   {[rowid |-> rowid, camera |-> camera,
                     timestamp |-> timestamp, deleted |-> FALSE]}
    /\ last' = [op |-> "insert"]
    /\ UNCHANGED <<boxVars, batcher, tracerVars, trackerVars, paramVars, loopVars>>

SQLiteBatchCall ==
    /\ \E error \in {"none", "connect", "select", "delete"} :
         \E r \in SQLiteBatch(sensor_data, batcher, error) :
            /\ sensor_data' = r.table
            /\ last' = [op |-> "batch", error |-> error, output |-> r.output]
    /\ UNCHANGED <<boxVars, batcher, tracerVars, trackerVars, paramVars, loopVars>>

\* find_largest_window_in_threshold called on its own
WindowSpec == UnitInit /\ [][FindLargestWindowCall]_vars

BatcherNext == InsertSensorData \/ SQLiteBatchCall

BatcherSpec == BatcherInit /\ [][BatcherNext]_vars

----------------------------------------------------------------------------
(* PercentileSpec: extract_percentile_index called on one cell array with   *)
(* two percentiles, each behaviour being one such pair of calls             *)

\* the percentiles of the calls, in units of 0.1: 0, 25, 50, 90, 99.9, 100
Percentiles == {0, 250, 500, 900, Permille, 1000}

PercentileArgs ==
    [op : {"percentile args"}, data : [Cells(GridRes) -> 0..MaxCount],
     p1 : Percentiles, p2 : Percentiles]

PercentileInit ==
    InitWith({MaxDistanceArg}, {MaxAgeArg}, {DefaultBatcher},
             {a \in PercentileArgs : a.p1 < a.p2})

ExtractPercentileCall ==
    /\ last.op = "percentile args"
    /\ last' = [op |-> "extract_percentile_index", data |-> last.data,
                p1 |-> last.p1, p2 |-> last.p2,
                r1 |-> ExtractPercentileIndex(last.data, last.p1),
                r2 |-> ExtractPercentileIndex(last.data, last.p2)]
    /\ UNCHANGED <<boxVars, batcherVars, tracerVars, trackerVars, paramVars, loopVars>>

PercentileSpec == PercentileInit /\ [][ExtractPercentileCall]_vars

----------------------------------------------------------------------------
(* ConfigSpec: a VoxelTracer under its reconfiguration calls, with          *)
(* add_grid_data and clear_grid_data between them.  The corners make every  *)
(* extent non-zero, positive or negative; resolutions are at least 1.       *)

BottomLefts == {<<0, 0>>, <<2, 0>>}
TopRights == {<<1, 1>>, <<3, 1>>}
Heights == {1}
Resolutions == {<<r, 1, 1>> : r \in 1..MaxRes}

\* the end of the three reconfiguration methods: self.clear_grid_data(),
\* which raises out of the method, after the attributes were assigned, if
\* np.zeros does
ClearAfter(op, args, gsize) ==
    /\ voxel_grid' = IF ZerosRaises(gsize) THEN voxel_grid ELSE ZeroGrid(gsize)
    /\ last' = [op |-> op, args |-> args, counted |-> \E c \in DOMAIN voxel_grid : voxel_grid[c] > 0,
                raised |-> IF ZerosRaises(gsize) THEN "ValueError" ELSE ""]

SetGridSizeCall ==
    \E bottom_left \in BottomLefts, top_right \in TopRights, height \in Heights :
        /\ grid_min' = <<bottom_left[1], bottom_left[2], 0>>
        /\ grid_max' = <<top_right[1], top_right[2], height>>
        /\ voxel_sizes' = Quotients(grid_max', grid_min', grid_size)
        /\ ClearAfter("set_grid_size", <<bottom_left, top_right, height>>, grid_size)
        /\ UNCHANGED <<batcherVars, grid_size, trackerVars, paramVars, loopVars>>

\* (calls that would make an axis longer than MaxRes cells are left out)
SetGridSizeKeepResolutionCall ==
    \E bottom_left \in BottomLefts, top_right \in TopRights, height \in Heights :
        /\ grid_min' = <<bottom_left[1], bottom_left[2], 0>>
        /\ grid_max' = <<top_right[1], top_right[2], height>>
        /\ \E gs \in [1..3 -> (0 - MaxRes)..MaxRes] :
              /\ \A a \in 1..3 :
                    gs[a] \in RoundedQuotient(grid_max'[a] - grid_min'[a],
                                              voxel_sizes[a])
              /\ grid_size' = gs
        /\ ClearAfter("set_grid_size_keep_resolution",
                      <<bottom_left, top_right, height>>, grid_size')
        /\ UNCHANGED <<batcherVars, voxel_sizes, trackerVars, paramVars, loopVars>>

SetGridResolutionCall ==
    \E resolution \in Resolutions :
        /\ grid_size' = resolution
        /\ voxel_sizes' = Quotients(grid_max, grid_min, resolution)
        /\ ClearAfter("set_grid_resolution", <<resolution>>, resolution)
        /\ UNCHANGED <<batcherVars, grid_min, grid_max, trackerVars, paramVars, loopVars>>

\* POST /update_parameters: the handler calls
\* set_grid_size(grid_min, grid_max, height, resolution), one positional
\* argument more than the method takes, so the call raises TypeError before
\* the method body runs; the handler has no except clause and calls nothing
\* else, and FastAPI answers the request with status 500.
UpdateParameters ==
    \E settings \in [grid_min : BottomLefts, grid_max : TopRights,
                      height : Heights, resolution : Resolutions] :
        /\ last' = [op |-> "update_parameters", settings |-> settings,
                    raised |-> "TypeError",
                    response |-> [status |-> "500 Internal Server Error"]]
        /\ UNCHANGED <<boxVars, batcherVars, tracerVars, trackerVars,
                       paramVars, loopVars>>

ConfigInit == InitWith({MaxDistanceArg}, {MaxAgeArg}, {DefaultBatcher}, {Constructed})

ConfigNext ==
    \/ SetGridSizeCall
    \/ SetGridSizeKeepResolutionCall
    \/ SetGridResolutionCall
    \/ UpdateParameters
    \/ AddGridDataCall
    \/ ClearGridDataCall

ConfigSpec == ConfigInit /\ [][ConfigNext]_vars

----------------------------------------------------------------------------
(* KernelSpec: the two raycast kernels, each behaviour being one call on    *)
(* arguments of a small family.  A voxel is SubSteps * TScale units wide on *)
(* every axis and the grid starts at the origin of the coordinates.         *)

SubSteps == 4

KernelVoxelSize == <<SubSteps * TScale, SubSteps * TScale, SubSteps * TScale>>
KernelMin == <<0, 0, 0>>
KernelMax(gsize) == [a \in 1..3 |-> KernelMin[a] + gsize[a] * KernelVoxelSize[a]]

\* resolutions of the grids
KernelGrids == {<<2, 2, 1>>}

\* Origins a quarter of a voxel before the grid, at the centre of its first
\* voxel, and a quarter of a voxel off that centre (never on a voxel
\* boundary); directions with zero, equal and unequal components.
KernelOrigins == {<<-1, 1, 2>>, <<2, 1, 2>>, <<2, 2, 2>>}

KernelRays ==
    [origin : {<<o[1] * TScale, o[2] * TScale, o[3] * TScale>> : o \in KernelOrigins},
     dir : {<<dx, dy, dz>> : dx \in -1..MaxDir, dy \in 0..1, dz \in 0..1}
             \ {<<0, 0, 0>>},
     weight : {1}]

\* the arguments of one call of a kernel
KernelArgs ==
    [op : {"scalar args"}, gsize : KernelGrids, ray : KernelRays]
      \cup [op : {"batch args"}, gsize : KernelGrids,
            rays : SeqsUpTo(KernelRays, MaxBatchRays)]

KernelInit == InitWith({MaxDistanceArg}, {MaxAgeArg}, {DefaultBatcher}, KernelArgs)

RaycastNumbaCall ==
    /\ last.op = "scalar args"
    /\ last' = [op |-> "_raycast_numba", ray |-> last.ray, gsize |-> last.gsize,
                voxels |-> RaycastNumba(last.ray, KernelMin, KernelMax(last.gsize),
                                        last.gsize, KernelVoxelSize),
                steps |-> RaycastNumbaSteps(last.ray, KernelMin,
                                            KernelMax(last.gsize), last.gsize,
                                            KernelVoxelSize)]
    /\ UNCHANGED <<boxVars, batcherVars, tracerVars, trackerVars, paramVars, loopVars>>

RaycastBatchCall ==
    /\ last.op = "batch args"
    /\ last' = [op |-> "_raycast_batch", rays |-> last.rays, gsize |-> last.gsize,
                rows |-> RaycastBatch(last.rays, KernelMin, KernelMax(last.gsize),
                                      last.gsize, KernelVoxelSize)]
    /\ UNCHANGED <<boxVars, batcherVars, tracerVars, trackerVars, paramVars, loopVars>>

KernelNext == RaycastNumbaCall \/ RaycastBatchCall

KernelSpec == KernelInit /\ [][KernelNext]_vars

----------------------------------------------------------------------------
(* DataPipeline.run *)

\* The voxels one ray of _raycast_batch emits, as the kernel's input here:
\* consecutive voxels differ by one step on one axis, and the step on an
\* axis never changes sign.  <<>> is a ray that misses the grid.
IsPath(p) ==
    /\ \A i \in 1..(Len(p) - 1) :
         \E axis \in 1..3 :
            /\ p[i + 1][axis] - p[i][axis] \in {-1, 1}
            /\ \A other \in (1..3) \ {axis} : p[i + 1][other] = p[i][other]
    /\ \A i, j \in 1..(Len(p) - 1) :
         \A axis \in 1..3 :
            (p[i + 1][axis] - p[i][axis]) * (p[j + 1][axis] - p[j][axis]) >= 0

PathLen == GridRes[1] + GridRes[2] + GridRes[3] - 2

RayPaths == {p \in SeqsUpTo(Cells(GridRes), PathLen) : IsPath(p)}

\* a ray with the mask value of its pixel (Rays.accumulation)
RaySet == [path : RayPaths, weight : 1..MaxRayWeight]

\* One record of a batch, as far as run() depends on it: its timestamp, what
\* cv2.imread and cv2.findNonZero make of its image, and the rays of its
\* motion pixels.
CameraInputs ==
    [timestamp : 1..MaxCamTime, mask : {"unreadable", "empty"}, rays : {<<>>}]
      \cup [timestamp : 1..MaxCamTime, mask : {"motion"},
            rays : SeqsUpTo(RaySet, MaxRays) \ {<<>>}]

Batches == SeqsUpTo(CameraInputs, MaxCams)

\* _raycast_batch, lines 180-197: the rows are emitted step by step, at each
\* step one row per ray that is still inside the grid, in ray order.
RECURSIVE RowsOfStep(_, _, _)
RowsOfStep(rays, step, r) ==
    IF r > Len(rays) THEN <<>>
    ELSE (IF Len(rays[r].path) >= step
          THEN <<[voxel |-> rays[r].path[step], weight |-> rays[r].weight]>>
          ELSE <<>>) \o RowsOfStep(rays, step, r + 1)

RECURSIVE RaycastRows(_, _)
RaycastRows(rays, step) ==
    IF \A r \in 1..Len(rays) : Len(rays[r].path) < step THEN <<>>
    ELSE RowsOfStep(rays, step, 1) \o RaycastRows(rays, step + 1)

\* The camera loop of run(), lines 44-50, from camera i on, started from any
\* of `grids`: a camera without motion makes get_camera_rays return None and
\* raycast_into_voxels_batch(None) raise, which leaves the loop with what the
\* cameras before it accumulated.
RECURSIVE CameraLoop(_, _, _)
CameraLoop(grids, batch, i) ==
    IF i > Len(batch)
    THEN {[grid |-> g, raised |-> FALSE, cams_done |-> Len(batch)] : g \in grids}
    ELSE IF batch[i].mask = "empty"
    THEN {[grid |-> g, raised |-> TRUE, cams_done |-> i - 1] : g \in grids}
    ELSE LET rows == RaycastRows(batch[i].rays, 1)
             voxels == [k \in 1..Len(rows) |-> rows[k].voxel]
             data == [k \in 1..Len(rows) |-> rows[k].weight]
         IN  CameraLoop(UNION {AddGridData(g, voxels, data) : g \in grids},
                        batch, i + 1)

\* avg_timestamp of lines 43-51, in units of 1/TsScale
AvgTimestamp(batch) ==
    (TsScale * SeqSum([i \in 1..Len(batch) |-> batch[i].timestamp])) \div Len(batch)

\* What a call of run() that raises leaves behind
RunRaised(grid, hist, next, frame, cams_done) ==
    [voxel_grid |-> grid, cluster_history |-> hist, next_object_id |-> next,
     frame_count |-> frame, kind |-> "raised", objects |-> <<>>,
     exports |-> <<>>, tracks |-> <<>>, cleanups |-> 0, cams_done |-> cams_done,
     extracted |-> "not reached"]

\* Lines 58-82: run() after a camera loop that ended with `grid`
RunAfterLoop(grid, gs, hist, next, frame, maxd, age, batch) ==
    LET extracted == ExtractPercentileIndex(grid, Permille)
        cleared == ZeroGrid(gs)
    IN  IF extracted.none
        THEN \* 'Skipping batch': a bare return, before the tracker and the
             \* exporter are reached
             [voxel_grid |-> cleared, cluster_history |-> hist,
              next_object_id |-> next, frame_count |-> frame, kind |-> "none",
              objects |-> <<>>, exports |-> <<>>, tracks |-> <<>>,
              cleanups |-> 0, cams_done |-> Len(batch), extracted |-> "none"]
        ELSE LET centroids == GetClusterCenters(extracted.points, EpsCorner2)
                 avg == AvgTimestamp(batch)
                 t == TrackClusters(hist, next, frame, maxd, centroids, avg)
                 ids == t.updated_ids
                 objects == [k \in 1..Len(ids) |->
                                [id |-> ids[k], timestamp |-> avg,
                                 position |-> GetClusterPosition(t.cluster_history, ids[k]),
                                 velocity |-> CalculateVelocity(t.cluster_history, ids[k])]]
             IN  [voxel_grid |-> cleared,
                  cluster_history |->
                      CleanupOldClusters(t.cluster_history, t.frame_count, age),
                  next_object_id |-> t.next_object_id,
                  frame_count |-> t.frame_count,
                  kind |-> "list", objects |-> objects,
                  exports |-> <<objects>>,
                  tracks |-> <<[centroids |-> centroids, timestamp |-> avg,
                                frame |-> frame, updated_ids |-> ids,
                                trace |-> t.trace]>>,
                  cleanups |-> 1, cams_done |-> Len(batch), extracted |-> "some"]

\* run(): the set of its possible outcomes on a batch.  An empty batch raises
\* ZeroDivisionError at line 51; an image cv2.imread cannot read raises in
\* process_camera (None has no .shape) at line 41, before the camera loop.
Run(grid, gs, hist, next, frame, maxd, age, batch) ==
    IF batch = <<>>
    THEN {RunRaised(grid, hist, next, frame, 0)}
    ELSE IF \E i \in 1..Len(batch) : batch[i].mask = "unreadable"
    THEN {RunRaised(grid, hist, next, frame, 0)}
    ELSE {IF a.raised
          THEN RunRaised(a.grid, hist, next, frame, a.cams_done)
          ELSE RunAfterLoop(a.grid, gs, hist, next, frame, maxd, age, batch)
            : a \in CameraLoop({grid}, batch, 1)}

----------------------------------------------------------------------------
(* Spec: the pipeline as deployed (run_continously and the /stream client) *)

\* Queue(maxsize=20)
QueueMaxSize == 20

\* One iteration of the loop of run_continously: run() inside try/except,
\* then the offer of a non-empty result to data_queue.
LoopIteration ==
    /\ thread = "started"
    /\ is_running
    /\ frame_count < MaxFrames
    /\ \E batch \in Batches :
         \E r \in Run(voxel_grid, grid_size, cluster_history, next_object_id,
                      frame_count, max_distance, max_age, batch) :
            /\ \A c \in DOMAIN r.voxel_grid : r.voxel_grid[c] <= MaxLeftOver
            /\ voxel_grid' = r.voxel_grid
            /\ cluster_history' = r.cluster_history
            /\ next_object_id' = r.next_object_id
            /\ frame_count' = r.frame_count
            /\ data_queue' =
                 IF r.kind = "list" /\ r.objects # <<>> /\ Len(data_queue) < QueueMaxSize
                 THEN Append(data_queue, r.objects)
                 ELSE data_queue
            /\ last' = [op |-> "run",
                        masks |-> [i \in 1..Len(batch) |-> batch[i].mask],
                        frame_before |-> frame_count,
                        kind |-> r.kind, objects |-> r.objects,
                        exports |-> r.exports, tracks |-> r.tracks,
                        cleanups |-> r.cleanups, cams_done |-> r.cams_done,
                        extracted |-> r.extracted]
    /\ UNCHANGED <<boxVars, batcherVars, grid_size, paramVars, is_running, thread>>

\* the loop condition is found false: run_continously returns
LoopExit ==
    /\ thread = "started"
    /\ ~is_running
    /\ thread' = "exited"
    /\ UNCHANGED <<boxVars, batcherVars, tracerVars, trackerVars, paramVars, is_running, data_queue, last>>

\* GET /stream: event_generator starts and sets is_running
StreamConnect ==
    /\ ~is_running
    /\ is_running' = TRUE
    /\ UNCHANGED <<boxVars, batcherVars, tracerVars, trackerVars, paramVars, thread, data_queue, last>>

\* event_generator finds the client disconnected
StreamDisconnect ==
    /\ is_running
    /\ is_running' = FALSE
    /\ UNCHANGED <<boxVars, batcherVars, tracerVars, trackerVars, paramVars, thread, data_queue, last>>

\* event_generator takes an entry with get_nowait and sends it
StreamSend ==
    /\ is_running
    /\ data_queue # <<>>
    /\ data_queue' = Tail(data_queue)
    /\ UNCHANGED <<boxVars, batcherVars, tracerVars, trackerVars, paramVars, is_running, thread, last>>

Next == LoopIteration \/ LoopExit \/ StreamConnect \/ StreamDisconnect \/ StreamSend

Spec == Init /\ [][Next]_vars

\* The same system with the scheduling the deployment gives: the consumer
\* thread, once started, is run by the interpreter whenever it can take a
\* step (it evaluates the loop condition and, if it holds, runs a tick;
\* batcher.batch() returns at once), and event_generator polls the queue
\* every 0.1 s while its client is connected.  Nothing obliges a client to
\* connect or to disconnect.
LiveSpec ==
    /\ Spec
    /\ WF_vars(LoopIteration)
    /\ WF_vars(LoopExit)
    /\ WF_vars(StreamSend)

----------------------------------------------------------------------------
(* QueueSpec: run_continously and the /stream client again, with the offer  *)
(* to data_queue in two steps, data_queue.full() and data_queue.put(data),  *)
(* between which the stream reader may run, and with enough ticks to fill   *)
(* the queue.                                                               *)

\* ticks explored per behaviour
QueueFrames == QueueMaxSize + 2

\* the batches of the ticks: an empty one, and one camera whose ray crosses
\* the whole grid
QueueBatches ==
    {<<>>,
     <<[timestamp |-> 1, mask |-> "motion",
        rays |-> <<[path |-> <<<<0, 0, 0>>, <<1, 0, 0>>, <<2, 0, 0>>>>,
                    weight |-> 1]>>]>>}

\* a queue that never reports itself full
QueueNeverFull(queue) == FALSE

\* data_queue.full()
QueueFull(queue) == Len(queue) >= QueueMaxSize

\* lines 85-89: the loop condition, run() inside try/except, and the test
\* `objects and not data_queue.full()`
QueueRun ==
    /\ thread = "started"
    /\ is_running
    /\ frame_count < QueueFrames
    /\ \E batch \in QueueBatches :
         \E r \in Run(voxel_grid, grid_size, cluster_history, next_object_id,
                      frame_count, max_distance, max_age, batch) :
            /\ voxel_grid' = r.voxel_grid
            /\ cluster_history' = r.cluster_history
            /\ next_object_id' = r.next_object_id
            /\ frame_count' = r.frame_count
            /\ thread' = IF r.kind = "list" /\ r.objects # <<>> /\ ~QueueFull(data_queue)
                         THEN "put" ELSE "started"
            /\ last' = [op |-> "run", kind |-> r.kind, objects |-> r.objects,
                        full |-> Len(data_queue) = QueueMaxSize]
    /\ UNCHANGED <<boxVars, batcherVars, grid_size, paramVars, is_running, data_queue>>

\* lines 90-92: data_queue.put(data), which waits while the queue is full
QueuePut ==
    /\ thread = "put"
    /\ Len(data_queue) < QueueMaxSize
    /\ data_queue' = Append(data_queue, last.objects)
    /\ thread' = "started"
    /\ UNCHANGED <<boxVars, batcherVars, tracerVars, trackerVars, paramVars, is_running, last>>

QueueNext ==
    \/ QueueRun
    \/ QueuePut
    \/ LoopExit
    \/ StreamConnect
    \/ StreamDisconnect
    \/ StreamSend

QueueSpec == Init /\ [][QueueNext]_vars

----------------------------------------------------------------------------
(* Claims about VoxelTracer.add_grid_data *)

\* sum of data[k] over the rows k from `k` on whose voxel is cell c
RECURSIVE RowSum(_, _, _, _)
RowSum(voxels, data, c, k) ==
    IF k > Len(voxels) THEN 0
    ELSE (IF voxels[k] = c THEN data[k] ELSE 0) + RowSum(voxels, data, c, k + 1)

\* C1: after add_grid_data(voxels, weights) every cell holds its count from
\* before the call plus the sum of the weights of all rows naming that cell,
\* also when a cell is named by several rows of the call.
C1_AddGridDataSumsAllRows ==
    last.op = "add_grid_data" =>
        \A c \in Cells(grid_size) :
            voxel_grid[c] = last.before[c] + RowSum(last.voxels, last.data, c, 1)

----------------------------------------------------------------------------
(* Claims about DataPipeline.run and run_continously, checked under Spec *)

\* positions of the entries of H whose most recent centroid is nearer to c
\* than max_distance
Near(H, c) ==
    {j \in 1..Len(H) : Dist2(c, Last(H[j].centroids)) < max_distance * max_distance}

\* those of Near(H, c) at the minimum distance
Nearest(H, c) ==
    {j \in Near(H, c) :
        \A i \in Near(H, c) :
            Dist2(c, Last(H[j].centroids)) <= Dist2(c, Last(H[i].centroids))}

\* the history as track_clusters left it in the last tick, before cleanup
TrackedHistory == Last(last.tracks[1].trace).hist

\* the last tick called track_clusters (followed by cleanup_old_clusters)
Tracked == last.op = "run" /\ last.tracks # <<>>

\* ticks in a row, up to the last one, in which record e was not matched
Missed(e) == frame_count - 1 - e.last_updated

\* a centroid presented in the last tick whose one nearest record, nearer
\* than max_distance, was in the history when the tick began is given the
\* id of that record
SameIdAsBefore ==
    Tracked =>
        \A k \in 1..Len(last.tracks[1].centroids) :
            LET H == last.tracks[1].trace[k].hist
                c == last.tracks[1].centroids[k]
            IN  \A j \in Nearest(H, c) :
                    (Nearest(H, c) = {j} /\ H[j].id \in Ids(last.tracks[1].trace[1].hist))
                        => last.tracks[1].updated_ids[k] = H[j].id

\* C2 as stated: with cleanup after every track_clusters call, a record
\* unmatched for m <= max_age ticks in a row is still in the history at the
\* next tick, so that a centroid nearer than max_distance to its last
\* centroid is given the same id as before.
C2_SurvivesMaxAgeMisses ==
    /\ Tracked =>
         \A j \in 1..Len(TrackedHistory) :
            Missed(TrackedHistory[j]) <= max_age
                => TrackedHistory[j].id \in Ids(cluster_history)
    /\ SameIdAsBefore

\* C2 as amended: a record unmatched for m < max_age ticks in a row is still
\* in the history at the next tick, so that a centroid nearer than
\* max_distance to its last centroid is given the same id as before.
C2_SurvivesFewerThanMaxAgeMisses ==
    /\ Tracked =>
         \A j \in 1..Len(TrackedHistory) :
            Missed(TrackedHistory[j]) < max_age
                => TrackedHistory[j].id \in Ids(cluster_history)
    /\ SameIdAsBefore

\* a tick in which a centroid was given the id of a record that had gone
\* unmatched in the tick before
C2_Witness ==
    /\ Tracked
    /\ last.tracks[1].updated_ids # <<>>
    /\ \E j \in 1..Len(last.tracks[1].trace[1].hist) :
         LET e == last.tracks[1].trace[1].hist[j]
         IN  /\ e.id = last.tracks[1].updated_ids[1]
             /\ last.frame_before - 1 - e.last_updated >= 1
             /\ e.id \in Ids(cluster_history)

\* C3: in a tick where extract_percentile_index returns None, run still
\* advances frame_count by exactly 1 and still calls cleanup_old_clusters.
C3_EmptyExtractionAdvancesTracker ==
    (last.op = "run" /\ last.extracted = "none") =>
        /\ frame_count = last.frame_before + 1
        /\ last.cleanups = 1

\* C4: in a tick where extract_percentile_index returns None, run returns an
\* empty list and the exporter's export is called with an empty list.
C4_EmptyExtractionExportsEmptyList ==
    (last.op = "run" /\ last.extracted = "none") =>
        /\ last.kind = "list"
        /\ last.objects = <<>>
        /\ last.exports = << <<>> >>

\* a batch all of whose images can be read
AllReadable == \A i \in 1..Len(last.masks) : last.masks[i] # "unreadable"

\* C5: a camera whose mask has no non-zero pixel is skipped: the other
\* cameras of the batch are still raycast and accumulated and the tick runs
\* to completion.
C5_CameraWithoutMotionIsSkipped ==
    (/\ last.op = "run"
     /\ AllReadable
     /\ \E i \in 1..Len(last.masks) : last.masks[i] = "empty") =>
        /\ last.kind # "raised"
        /\ last.cams_done = Len(last.masks)

\* C6: if the mask of one record cannot be read, that camera alone produces
\* nothing: no exception leaves run and the other cameras of the batch are
\* still processed and accumulated.
C6_UnreadableMaskIsSkipped ==
    (/\ last.op = "run"
     /\ \E i \in 1..Len(last.masks) : last.masks[i] = "unreadable") =>
        /\ last.kind # "raised"
        /\ last.cams_done = Len(last.masks)

\* C7: when the batcher returns an empty list, run skips the tick: it
\* completes without raising and emits no object records.
C7_EmptyBatchIsSkipped ==
    (last.op = "run" /\ last.masks = <<>>) =>
        /\ last.kind # "raised"
        /\ last.objects = <<>>
        /\ \A i \in 1..Len(last.exports) : last.exports[i] = <<>>

\* C8: whenever a tick of run_continously begins accumulating, also after a
\* tick that ended in an exception the loop caught, every cell of the grid
\* is zero.
C8_GridZeroAtTickStart ==
    \A c \in DOMAIN voxel_grid : voxel_grid[c] = 0

----------------------------------------------------------------------------
(* Claims about ClusterTracker.track_clusters *)

\* C9: track_clusters handles the centroids in input order; a centroid with
\* a record nearer than max_distance (records created or updated earlier in
\* the call included) is appended to a record at the minimum distance, whose
\* last_updated becomes the current frame_count and whose id is returned at
\* that position; any other centroid is inserted as a new record under a new
\* id.  One id is returned per centroid, in input order.
C9_TrackClustersContract ==
    last.op = "track_clusters" =>
        LET n == Len(last.centroids)
        IN  /\ Len(last.updated_ids) = n
            /\ Len(last.trace) = n + 1
            /\ cluster_history = last.trace[n + 1].hist
            /\ next_object_id = last.trace[n + 1].next
            /\ \A k \in 1..n :
                 LET H  == last.trace[k].hist
                     H2 == last.trace[k + 1].hist
                     c  == last.centroids[k]
                     id == last.updated_ids[k]
                 IN  IF Near(H, c) # {}
                     THEN \E j \in Nearest(H, c) :
                            /\ H[j].id = id
                            /\ Len(H2) = Len(H)
                            /\ \A i \in 1..Len(H) : i # j => H2[i] = H[i]
                            /\ H2[j] = [id |-> id,
                                        centroids |-> Append(H[j].centroids, c),
                                        timestamp |-> Append(H[j].timestamp, last.timestamp),
                                        last_updated |-> last.frame]
                            /\ last.trace[k + 1].next = last.trace[k].next
                     ELSE /\ id = last.trace[k].next
                          /\ id \notin Ids(H)
                          /\ Len(H2) = Len(H) + 1
                          /\ \A i \in 1..Len(H) : H2[i] = H[i]
                          /\ Last(H2) = [id |-> id,
                                         centroids |-> <<c>>,
                                         timestamp |-> <<last.timestamp>>,
                                         last_updated |-> last.frame]
                          /\ last.trace[k + 1].next = last.trace[k].next + 1

\* a call in which one centroid matched a record that an earlier centroid of
\* the same call had created, and another centroid was inserted as new
C9_Witness ==
    /\ last.op = "track_clusters"
    /\ Len(last.centroids) = 2
    /\ last.updated_ids[1] = last.updated_ids[2]
    /\ last.updated_ids[1] \notin Ids(last.trace[1].hist)
    /\ last.trace[1].hist # <<>>

\* C10: a centroid at the same minimum distance (below max_distance) from
\* the last centroids of several records is matched to the one with the
\* smallest id, in every reachable tracker state.
C10_TieGoesToSmallestId ==
    last.op = "track_clusters" =>
        \A k \in 1..Len(last.centroids) :
            LET H == last.trace[k].hist
                c == last.centroids[k]
            IN  Nearest(H, c) # {} =>
                    \A j \in Nearest(H, c) : last.updated_ids[k] <= H[j].id

\* a tie between two records in a tracker from which cleanup had removed a
\* record before the tied records were inserted
C10_Witness ==
    /\ last.op = "track_clusters"
    /\ \E k \in 1..Len(last.centroids) :
         LET H == last.trace[k].hist
         IN  /\ Cardinality(Nearest(H, last.centroids[k])) >= 2
             /\ \E gone \in 0..(last.trace[k].next - 1) :
                  /\ gone \notin Ids(H)
                  /\ \A j \in Nearest(H, last.centroids[k]) : gone < H[j].id

----------------------------------------------------------------------------
(* Claims about ids, cleanup_old_clusters and frame_count (TrackerSpec) *)

\* C11: ids are never reused: the ids in the history are distinct and below
\* next_object_id, next_object_id never decreases, and an id that enters the
\* history is at least the next_object_id of before, so it differs from every
\* id allocated earlier, also from the ids of records cleanup has removed.
C11_IdsNeverReused ==
    /\ [](/\ \A id \in Ids(cluster_history) : id < next_object_id
          /\ \A i, j \in 1..Len(cluster_history) :
                i # j => cluster_history[i].id # cluster_history[j].id)
    /\ [][/\ next_object_id' >= next_object_id
           /\ \A id \in Ids(cluster_history') \ Ids(cluster_history) :
                id >= next_object_id]_vars

\* a call that inserted a centroid under a fresh id into a history from
\* which cleanup had removed every record allocated before
C11_Witness ==
    /\ last.op = "track_clusters"
    /\ last.trace[1].hist = <<>>
    /\ last.trace[1].next >= 1
    /\ last.updated_ids # <<>>
    /\ last.updated_ids[1] = last.trace[1].next
    /\ last.updated_ids[1] \in Ids(cluster_history)

\* C12: cleanup_old_clusters removes exactly the records with
\* frame_count - last_updated > max_age; the other records stay as they were
\* and in their order, and next_object_id and frame_count are unchanged.
C12_CleanupFrameEffect ==
    [][last'.op = "cleanup_old_clusters" =>
        /\ next_object_id' = next_object_id
        /\ frame_count' = frame_count
        /\ \A j \in 1..Len(cluster_history) :
             (frame_count - cluster_history[j].last_updated > max_age)
                <=> cluster_history[j].id \notin Ids(cluster_history')
        /\ \A i \in 1..Len(cluster_history') :
             \E j \in 1..Len(cluster_history) :
                /\ cluster_history'[i] = cluster_history[j]
                /\ \A i2 \in (i + 1)..Len(cluster_history') :
                     \E j2 \in (j + 1)..Len(cluster_history) :
                        cluster_history'[i2] = cluster_history[j2]]_vars

\* a cleanup that removed a record and kept another
C12_Witness ==
    /\ last.op = "cleanup_old_clusters"
    /\ cluster_history # <<>>
    /\ Len(last.before) > Len(cluster_history)

\* C13: every call of track_clusters increases frame_count by exactly 1,
\* whatever the number of centroids; cleanup_old_clusters, calculate_velocity
\* and get_cluster_position leave frame_count as it is.
C13_FrameCountAdvancesByOne ==
    [][/\ last'.op = "track_clusters" => frame_count' = frame_count + 1
       /\ last'.op \in {"cleanup_old_clusters", "calculate_velocity",
                        "get_cluster_position"} => frame_count' = frame_count]_vars

\* a call of track_clusters with two centroids, not the first call
C13_Witness ==
    /\ last.op = "track_clusters"
    /\ Len(last.centroids) = 2
    /\ last.frame >= 1
    /\ frame_count = last.frame + 1

----------------------------------------------------------------------------
(* Claims about find_largest_window_in_threshold (WindowSpec) and           *)
(* SQLiteBatcher (BatcherSpec)                                              *)

\* C14: for a non-empty ascending list and a threshold > 0 the function
\* returns 0-based indices (l, r) with 0 <= l <= r < len(values) and
\* values[r] - values[l] < threshold, such that no index pair with that
\* property is further apart, and no such pair equally far apart starts
\* before l; the example list [0.0, 0.05, 0.1, 0.4, 0.5] with threshold 0.2
\* gives (0, 2).
C14_LargestWindowIsFirstMaximal ==
    last.op = "find_largest_window_in_threshold" =>
        LET v == last.values
            n == Len(v)
            l == last.result[1]
            r == last.result[2]
        IN  /\ 0 <= l /\ l <= r /\ r < n
            /\ v[r + 1] - v[l + 1] < last.threshold
            /\ \A a, b \in 0..(n - 1) :
                 (a <= b /\ v[b + 1] - v[a + 1] < last.threshold) =>
                    \/ b - a < r - l
                    \/ b - a = r - l /\ l <= a
            /\ (v = ExampleValues /\ last.threshold = ExampleThreshold)
                 => last.result = <<0, 2>>

\* a call on a list with two windows of the maximum length, of more than one
\* entry, the later of which does not overlap the returned one
C14_Witness ==
    /\ last.op = "find_largest_window_in_threshold"
    /\ last.result[2] > last.result[1]
    /\ \E a \in (last.result[2] + 1)..(Len(last.values) - 1) :
         LET b == a + last.result[2] - last.result[1]
         IN  /\ b < Len(last.values)
             /\ last.values[b + 1] - last.values[a + 1] < last.threshold

\* C15: in soft-delete mode every row a call of batch() returns had
\* isDeleted NULL before the call and has isDeleted = 1 after it, and a row
\* with isDeleted = 1 keeps it, so that no row is returned by two calls.
C15_SoftDeleteMarksReturnedRows ==
    [][batcher.soft_delete =>
        /\ last'.op = "batch" =>
             \A k \in 1..Len(last'.output) :
                /\ last'.output[k] \in sensor_data
                /\ ~last'.output[k].deleted
                /\ [last'.output[k] EXCEPT !.deleted = TRUE] \in sensor_data'
        /\ \A r \in sensor_data : r.deleted => r \in sensor_data']_vars

\* C16: if a database error occurs inside batch(), while connecting,
\* selecting or deleting, batch() returns an empty list and the table is
\* left as it was.
C16_DatabaseErrorReturnsEmpty ==
    [][(last'.op = "batch" /\ last'.error # "none") =>
        /\ last'.output = <<>>
        /\ sensor_data' = sensor_data]_vars

----------------------------------------------------------------------------
(* Claims about the raycast kernels (KernelSpec)                            *)

\* the voxel and the weight of every row
ArrayRows(rows) ==
    [k \in 1..Len(rows) |-> [voxel |-> rows[k].voxel, weight |-> rows[k].weight]]

\* the voxels _raycast_numba returns for each ray of the batch from ray i
\* on, one after the other in the order of the rays, each voxel with the
\* weight of its ray
RECURSIVE ScalarRows(_, _, _)
ScalarRows(rays, gsize, i) ==
    IF i > Len(rays) THEN <<>>
    ELSE LET voxels == RaycastNumba(rays[i], KernelMin, KernelMax(gsize),
                                    gsize, KernelVoxelSize)
         IN  [k \in 1..Len(voxels) |->
                 [voxel |-> voxels[k], weight |-> rays[i].weight]]
               \o ScalarRows(rays, gsize, i + 1)

\* the rows of ray i of the batch, in the order of the output
RowsOfRay(rows, i) == SelectSeq(rows, LAMBDA row : row.ray = i)

\* C17: _raycast_batch applied to a batch of rays returns the same sequence
\* of voxel indices, with the same weights beside them, as the voxel lists
\* _raycast_numba returns for the rays, concatenated in the order of the
\* rays.
C17_BatchEqualsScalarConcatenation ==
    last.op = "_raycast_batch" =>
        ArrayRows(last.rows) = ScalarRows(last.rays, last.gsize, 1)

\* C18: for every ray traced by _raycast_batch, also one with a zero
\* direction component, each voxel emitted after the first differs from the
\* voxel emitted before it for the same ray in exactly one axis, and there
\* by exactly +1 or -1.
C18_ConsecutiveVoxelsAreNeighbours ==
    last.op = "_raycast_batch" =>
        \A i \in 1..Len(last.rays) :
            LET own == RowsOfRay(last.rows, i)
            IN  \A k \in 2..Len(own) :
                    \E a \in 1..3 :
                        /\ Abs(own[k].voxel[a] - own[k - 1].voxel[a]) = 1
                        /\ \A b \in (1..3) \ {a} :
                               own[k].voxel[b] = own[k - 1].voxel[b]

----------------------------------------------------------------------------
(* Claims about reconfiguring a VoxelTracer (ConfigSpec)                    *)

\* the shape of the cell array equals grid_size.  (A cell array is kept as
\* a function on its indices; an array without cells has the shape of the
\* grid_size it was made for, since every assignment of grid_size is
\* followed by np.zeros(grid_size), which replaces the array or raises on a
\* negative grid_size.)
ShapeIsGridSize ==
    /\ \A a \in 1..3 : grid_size[a] >= 0
    /\ DOMAIN voxel_grid = Cells(grid_size)

\* C20: after set_grid_size, set_grid_size_keep_resolution and
\* set_grid_resolution, also when cells held non-zero counts before, every
\* cell is 0 and the shape of the cell array equals grid_size; and the shape
\* of voxel_grid equals grid_size in every reachable state.
C20_ReconfigurationClearsCells ==
    /\ ShapeIsGridSize
    /\ last.op \in {"set_grid_size", "set_grid_size_keep_resolution",
                    "set_grid_resolution"}
         => \A c \in DOMAIN voxel_grid : voxel_grid[c] = 0

\* the float value of one quotient equals that of another: finite values by
\* cross-multiplication, infinite ones by their sign (0 / 0, NaN, equals
\* nothing)
SameQuotient(p, q) ==
    IF p.den # 0 /\ q.den # 0 THEN p.num * q.den = q.num * p.den
    ELSE /\ p.den = 0 /\ q.den = 0
         /\ p.num # 0 /\ q.num # 0
         /\ (p.num > 0) = (q.num > 0)

\* C21: in every reachable state of a VoxelTracer, after construction and
\* after any sequence of set_grid_size, set_grid_size_keep_resolution and
\* set_grid_resolution calls, voxel_sizes equals
\* (grid_max - grid_min) / grid_size on every axis.
C21_VoxelSizesTileTheBox ==
    \A a \in 1..3 :
        SameQuotient(voxel_sizes[a], Quotients(grid_max, grid_min, grid_size)[a])

\* C22: a call of set_grid_size or set_grid_size_keep_resolution whose
\* bounds give a non-positive extent on some axis (top_right <= bottom_left,
\* or height <= 0) raises an error and leaves grid_min, grid_max, grid_size,
\* voxel_sizes and the cells as they were before the call.
C22_NonPositiveExtentIsRejected ==
    [][(/\ last'.op \in {"set_grid_size", "set_grid_size_keep_resolution"}
        /\ \/ last'.args[2][1] <= last'.args[1][1]
           \/ last'.args[2][2] <= last'.args[1][2]
           \/ last'.args[3] <= 0)
        => /\ last'.raised # ""
           /\ UNCHANGED <<grid_min, grid_max, grid_size, voxel_sizes, voxel_grid>>]_vars

\* C23: after a POST to /update_parameters with {grid_min, grid_max, height,
\* resolution} the tracer's grid_min, grid_max and grid_size are the
\* requested values, its cells are all zero, and the response echoes the
\* applied values.
C23_UpdateParametersApplies ==
    last.op = "update_parameters" =>
        LET s == last.settings
        IN  /\ grid_min = <<s.grid_min[1], s.grid_min[2], 0>>
            /\ grid_max = <<s.grid_max[1], s.grid_max[2], s.height>>
            /\ grid_size = s.resolution
            /\ \A c \in DOMAIN voxel_grid : voxel_grid[c] = 0
            /\ last.response = [updated |-> [grid_min |-> grid_min,
                                             grid_max |-> grid_max,
                                             resolution |-> grid_size]]

----------------------------------------------------------------------------
(* Claims about the continuous deployment (LiveSpec, Spec, QueueSpec)       *)

\* C24: while a stream client is connected and batches keep being supplied
\* (here: as long as the tick bound MaxFrames is not reached), the consumer
\* thread started at application startup keeps running ticks: if the client
\* stays connected from some time on, run() is called again and again.
C24_ConnectedClientGetsTicks ==
    <>[](is_running /\ frame_count < MaxFrames) => []<><<LoopIteration>>_vars

\* C25: the consumer thread never waits in data_queue.put: whenever it has
\* decided to put, the queue has room, whatever the stream reader did in
\* between; a tick that finishes while the queue holds 20 entries puts
\* nothing and the loop goes on; and data_queue never holds more than 20
\* entries.
C25_ConsumerNeverBlocks ==
    /\ Len(data_queue) <= QueueMaxSize
    /\ thread = "put" => Len(data_queue) < QueueMaxSize
    /\ (last.op = "run" /\ last.full) => thread # "put"

\* a tick that produced objects while the queue held 20 entries: the thread
\* is back at the loop condition and the queue still holds the 20 entries
C25_Witness ==
    /\ last.op = "run"
    /\ last.objects # <<>>
    /\ last.full
    /\ thread = "started"
    /\ Len(data_queue) = QueueMaxSize

----------------------------------------------------------------------------
(* Claims about extract_percentile_index (PercentileSpec)                   *)

\* the cells of a result, as a set
PointSet(r) == {r.points[k] : k \in 1..Len(r.points)}

\* a result that is not None is a non-empty set of cells of the array whose
\* value is at least the percentile of the strictly positive values
AtLeastPercentile(data, permille, r) ==
    LET positive == {c \in DOMAIN data : data[c] > 0}
    IN  ~r.none =>
          /\ PointSet(r) # {}
          /\ \A c \in PointSet(r) :
                /\ c \in DOMAIN data
                /\ 1000 * data[c] >=
                      Percentile1000(SortedValues(data, positive), permille)

\* C26: for every cell array and percentiles p1 < p2 for which
\* extract_percentile_index returns an index set for both, the index set for
\* p2 is a subset of the index set for p1; and a result that is not None is
\* a non-empty set of cells whose value is >= the percentile (linear
\* interpolation) of the strictly positive cell values.
C26_PercentileIsMonotonic ==
    last.op = "extract_percentile_index" =>
        /\ (~last.r1.none /\ ~last.r2.none)
              => PointSet(last.r2) \subseteq PointSet(last.r1)
        /\ AtLeastPercentile(last.data, last.p1, last.r1)
        /\ AtLeastPercentile(last.data, last.p2, last.r2)

\* a pair of calls on an array with three different positive counts, the
\* second of which returns fewer cells than the first, though not only the
\* largest one
C26_Witness ==
    /\ last.op = "extract_percentile_index"
    /\ ~last.r1.none /\ ~last.r2.none
    /\ Cardinality({last.data[c] : c \in DOMAIN last.data} \ {0}) = 3
    /\ Len(last.r2.points) < Len(last.r1.points)
    /\ Len(last.r2.points) > 1

----------------------------------------------------------------------------
(* More claims about the raycast kernels (KernelSpec)                       *)

\* axis holds the smallest of the values tMax, and no axis before it does
\* (no value being NaN)
LowestSmallestAxis(tMax, axis) ==
    /\ \A b \in 1..3 : ~XLt(tMax[b], tMax[axis])
    /\ \A b \in 1..(axis - 1) : XLt(tMax[axis], tMax[b])

\* C27: in _raycast_numba and in _raycast_batch alike, whenever the smallest
\* tMax value is shared by two or three axes the step is taken on the
\* lowest-numbered of them (and on the axis of the smallest value when it is
\* not shared).
C27_TieGoesToLowestAxis ==
    /\ last.op = "_raycast_numba" =>
          \A k \in 1..Len(last.steps) :
              LowestSmallestAxis(last.steps[k].tMax, last.steps[k].axis)
    /\ last.op = "_raycast_batch" =>
          \A k \in 1..Len(last.rows) :
              (/\ last.rows[k].iter > 0
               /\ \A a \in 1..3 : last.rows[k].before[a].k # "nan")
                 => LowestSmallestAxis(last.rows[k].before, last.rows[k].axis)

\* C28: for every ray of a batch the number of voxels _raycast_batch emits
\* for it, the entry voxel included, is at most MAX_RAY_STEPS (and the call
\* returns).
C28_AtMostMaxRayStepsVoxels ==
    last.op = "_raycast_batch" =>
        \A i \in 1..Len(last.rays) :
            Len(RowsOfRay(last.rows, i)) <= MAX_RAY_STEPS

----------------------------------------------------------------------------
(* More claims about ClusterTracker (TrackerSpec) and SQLiteBatcher         *)
(* (BatcherSpec)                                                            *)

\* the timestamps of every record are strictly increasing
StampsIncrease(hist) ==
    \A j \in 1..Len(hist) :
        \A a, b \in 1..Len(hist[j].timestamp) :
            a < b => hist[j].timestamp[a] < hist[j].timestamp[b]

\* C29: a track_clusters call whose timestamp is later than every timestamp
\* recorded before it (the calls having been given strictly increasing
\* timestamps), on centroids that differ from one another, returns each id
\* at most once, so that every record gains at most one observation, the
\* timestamps of every record stay strictly increasing and
\* calculate_velocity divides by no zero time difference.
C29_OneObservationPerTick ==
    [][(/\ last'.op = "track_clusters"
        /\ frame_count' = frame_count + 1
        /\ StampsIncrease(cluster_history)
        /\ \A j \in 1..Len(cluster_history) :
              \A a \in 1..Len(cluster_history[j].timestamp) :
                  cluster_history[j].timestamp[a] < last'.timestamp
        /\ \A a, b \in 1..Len(last'.centroids) :
              a # b => last'.centroids[a] # last'.centroids[b])
        => /\ \A a, b \in 1..Len(last'.updated_ids) :
                 a # b => last'.updated_ids[a] # last'.updated_ids[b]
           /\ StampsIncrease(cluster_history')
           /\ \A k \in 1..Len(last'.updated_ids) :
                 CalculateVelocity(cluster_history', last'.updated_ids[k]).den # 0]_vars

\* C30: batch() never deletes, or marks deleted, a row that it does not
\* return: every row that is undeleted before a call and not after it is in
\* the list the call returns.
C30_DeletesOnlyReturnedRows ==
    [][last'.op = "batch" =>
        \A r \in sensor_data :
            (~r.deleted /\ r \notin sensor_data')
               => \E k \in 1..Len(last'.output) : last'.output[k] = r]_vars

====
